---- MODULE Spec2Model ----
(***************************************************************************)
(* Trivia API (backend/flaskr/__init__.py, backend/models.py).             *)
(*                                                                         *)
(* The store is the two tables of models.py; every route handler of        *)
(* create_app is one action that reads or mutates the store and leaves     *)
(* the request it served and the response it produced in req / resp.       *)
(* before holds the question table as it was when the request arrived.     *)
(*                                                                         *)
(* Text is a tuple of one-character strings.  A JSON value is a record     *)
(* [t, n, s]: t is the JSON type, n the number, s the text.  An optional   *)
(* value of a response (null or one object) is a tuple of length <= 1.     *)
(***************************************************************************)
EXTENDS Integers, Sequences, FiniteSets

\* ------------------------------------------------------------------------
\* Bounds of the model
\* ------------------------------------------------------------------------
MaxCat == 2
MaxSeed == 2
MaxId == 3
MaxTermLen == 1
MaxPrevLen == 2
MaxDeviations == 1
MaxPageSeed == 11
MaxPage == 3
MaxCalls == 4
MaxQuizSeed == 3

\* ------------------------------------------------------------------------
\* Program constants
\* ------------------------------------------------------------------------
QUESTIONS_PER_PAGE == 10

\* ------------------------------------------------------------------------
\* JSON values
\* ------------------------------------------------------------------------
Absent == [t |-> "absent", n |-> 0, s |-> <<>>]
Null == [t |-> "null", n |-> 0, s |-> <<>>]
Num(k) == [t |-> "number", n |-> k, s |-> <<>>]
Str(x) == [t |-> "string", n |-> 0, s |-> x]

Present(v) == v.t # "absent"

\* Python truthiness of body.get(key): a missing key gives None.
Truthy(v) ==
    CASE v.t = "absent" -> FALSE
      [] v.t = "null" -> FALSE
      [] v.t = "number" -> v.n # 0
      [] OTHER -> v.s # <<>>

\* ------------------------------------------------------------------------
\* Text
\* ------------------------------------------------------------------------
Digits == {"0", "1", "2", "3", "7"}

DigitValue(c) ==
    CASE c = "0" -> 0 [] c = "1" -> 1 [] c = "2" -> 2 [] c = "3" -> 3 [] OTHER -> 7

DigitChar(k) ==
    CASE k = 0 -> "0" [] k = 1 -> "1" [] k = 2 -> "2" [] k = 3 -> "3" [] OTHER -> "7"

\* The pattern '^\d+$' of the schemas.
MatchesDigits(x) == Len(x) >= 1 /\ \A i \in 1..Len(x) : x[i] \in Digits

RECURSIVE ParseInt(_)
ParseInt(x) ==
    IF x = <<>> THEN 0
    ELSE 10 * ParseInt(SubSeq(x, 1, Len(x) - 1)) + DigitValue(x[Len(x)])

\* str() of a JSON value inside an f-string (one-digit numbers suffice here).
Format(v) == IF v.t = "number" THEN <<DigitChar(v.n)>> ELSE v.s

Lower(c) == CASE c = "A" -> "a" [] c = "B" -> "b" [] OTHER -> c

\* SQL ILIKE: '%' matches any run of characters, '_' any one character,
\* every other character matches itself without regard to case.
RECURSIVE LikeMatch(_, _)
LikeMatch(pat, x) ==
    IF pat = <<>> THEN x = <<>>
    ELSE IF Head(pat) = "%"
         THEN LikeMatch(Tail(pat), x) \/ (x # <<>> /\ LikeMatch(pat, Tail(x)))
    ELSE IF Head(pat) = "_"
         THEN x # <<>> /\ LikeMatch(Tail(pat), Tail(x))
    ELSE x # <<>> /\ Lower(Head(pat)) = Lower(Head(x))
                  /\ LikeMatch(Tail(pat), Tail(x))

ilike(x, pat) == LikeMatch(pat, x)

\* ------------------------------------------------------------------------
\* State
\* ------------------------------------------------------------------------
VARIABLES
    categories,   \* table categories: the set of category ids (models.Category)
    questions,    \* table questions: a set of rows (models.Question)
    nextId,       \* the next value of the questions.id sequence
    req,          \* the request served last
    resp,         \* its response
    before,       \* the two tables as they were when it arrived
    session,      \* the db.session calls made while serving it
    quiz          \* the quiz a client is playing: its category, the answers
                  \* it got so far, and whether the store changed meanwhile

vars == <<categories, questions, nextId, req, resp, before, session, quiz>>

CatIds == 1..MaxCat

\* Category.type of a seeded category.
CategoryType(c) == <<"t", DigitChar(c)>>

\* Question.format()
format(q) ==
    [id |-> q.id, question |-> q.question, answer |-> q.answer,
     category |-> q.category_id, difficulty |-> q.difficulty]

\* Category.query.all() rendered as the id -> type mapping.
categories_formatted == [c \in categories |-> CategoryType(c)]

QuestionIds == {q.id : q \in questions}

\* Mutant: an id that is missing finds the row with the greatest id below it.
QuestionGet_nearest(id) ==
    IF \E q \in questions : q.id = id
    THEN {q \in questions : q.id = id}
    ELSE {q \in questions : q.id < id /\ \A r \in questions : r.id < id => r.id <= q.id}

\* Question.query.get(id), as a set of at most one row.
QuestionGet(id) == {q \in questions : q.id = id}

\* Mutant: the delete takes the other questions of the same category along.
SessionDelete_category(rows, found) ==
    {q \in rows : \A f \in found : q.category_id # f.category_id}

\* db.session.delete(row) and db.session.add(row), once committed.
SessionDelete(rows, found) == rows \ found

SessionAdd(rows, row) == rows \cup {row}

\* Mutant: close comes after the commit inside the try block, so that a
\* store failure leaves the session open.
Transaction_open(call, fault) ==
    IF fault = "call" THEN <<call, "rollback">>
    ELSE IF fault = "commit" THEN <<call, "commit", "rollback">>
    ELSE <<call, "commit", "close">>

\* The session calls of 'try: call; commit / except: rollback; abort(422) /
\* finally: close' when the call named by fault raises.
Transaction(call, fault) ==
    IF fault = "call" THEN <<call, "rollback", "close">>
    ELSE IF fault = "commit" THEN <<call, "commit", "rollback", "close">>
    ELSE <<call, "commit", "close">>

\* The rows of a set of rows in ascending id order (order_by(Question.id)).
RECURSIVE OrderById(_)
OrderById(rows) ==
    IF rows = {} THEN <<>>
    ELSE LET first == CHOOSE q \in rows : \A r \in rows : q.id <= r.id
         IN <<first>> \o OrderById(rows \ {first})

\* ------------------------------------------------------------------------
\* Responses
\* ------------------------------------------------------------------------
EmptyBody == [k \in {} |-> 0]

Json(status, body) == [status |-> status, json |-> TRUE, body |-> body]

ValidatorMessage == "validator message"

\* The registered error handlers; a ValidationError carries its own message.
ErrorMessage(code) ==
    CASE code = 400 -> "bad request"
      [] code = 404 -> "resource not found"
      [] code = 405 -> "method not allowed"
      [] OTHER -> "unprocessable entity"

bad_request == Json(400, [error |-> 400, message |-> ValidatorMessage])
resource_not_found == Json(404, [error |-> 404, message |-> ErrorMessage(404)])
method_not_allowed == Json(405, [error |-> 405, message |-> ErrorMessage(405)])
unprocessable_entity == Json(422, [error |-> 422, message |-> ErrorMessage(422)])

\* No handler is registered for 500: the framework answers with its own page.
internal_server_error == [status |-> 500, json |-> FALSE, body |-> EmptyBody]

Snapshot == [questions |-> questions, categories |-> categories]

\* A read request: the tables stay as they are and no session call is made.
Reads(request, response) ==
    /\ req' = request
    /\ resp' = response
    /\ before' = Snapshot
    /\ session' = <<>>
    /\ UNCHANGED <<categories, questions, nextId>>

\* ------------------------------------------------------------------------
\* GET /questions
\* ------------------------------------------------------------------------
\* request.args.get('page', 1, type=int): arg is <<>> or <<page>>.
PageOf(arg) == IF arg = <<>> THEN 1 ELSE arg[1]

\* BaseQuery.paginate(page, per_page): aborts with 404 for a page below 1 and
\* for an empty page other than the first.
\* Mutant: the offset is page * per_page.
PageItems_offset(rows, page, per_page) ==
    LET ordered == OrderById(rows)
        first == page * per_page + 1
        last == IF (page + 1) * per_page < Len(ordered) THEN (page + 1) * per_page
                ELSE Len(ordered)
    IN SubSeq(ordered, first, last)

PageItems(rows, page, per_page) ==
    LET ordered == OrderById(rows)
        first == (page - 1) * per_page + 1
        last == IF page * per_page < Len(ordered) THEN page * per_page
                ELSE Len(ordered)
    IN SubSeq(ordered, first, last)

\* Mutant: an empty first page is missing too.
PageMissing_empty(rows, page, per_page) ==
    \/ page < 1
    \/ PageItems(rows, page, per_page) = <<>>

PageMissing(rows, page, per_page) ==
    \/ page < 1
    \/ (PageItems(rows, page, per_page) = <<>> /\ page # 1)

get_questions(arg) ==
    LET page == PageOf(arg)
        request == [op |-> "get_questions", page |-> arg]
        items == PageItems(questions, page, QUESTIONS_PER_PAGE)
    IN IF PageMissing(questions, page, QUESTIONS_PER_PAGE)
       THEN Reads(request, resource_not_found)
       ELSE IF categories = {}
       THEN Reads(request, resource_not_found)
       ELSE Reads(request, Json(200,
                [questions |-> [i \in 1..Len(items) |-> format(items[i])],
                 totalQuestions |-> Cardinality(questions),
                 categories |-> categories_formatted,
                 currentCategory |-> <<>>]))

\* ------------------------------------------------------------------------
\* GET /categories/<id>/questions
\* ------------------------------------------------------------------------
get_questions_of_category(id) ==
    LET request == [op |-> "get_questions_of_category", id |-> id]
        found == {q \in questions : q.category_id = id}
    IN IF id \notin categories
       THEN Reads(request, resource_not_found)
       ELSE IF found = {}
       THEN Reads(request, resource_not_found)
       ELSE Reads(request, Json(200,
                [questions |-> {format(q) : q \in found},
                 totalQuestions |-> Cardinality(found),
                 currentCategory |-> <<CategoryType(id)>>]))

\* ------------------------------------------------------------------------
\* GET /categories
\* ------------------------------------------------------------------------
get_categories ==
    LET request == [op |-> "get_categories"]
    IN IF categories = {}
       THEN Reads(request, resource_not_found)
       ELSE Reads(request, Json(200, [categories |-> categories_formatted]))

\* ------------------------------------------------------------------------
\* DELETE /questions/<id>
\* ------------------------------------------------------------------------
\* fault names the session call that raises, "none" when the store accepts.
delete_questions(id, fault) ==
    LET request == [op |-> "delete_questions", id |-> id, fault |-> fault]
    IN /\ req' = request
       /\ before' = Snapshot
       /\ UNCHANGED <<categories, nextId>>
       /\ IF QuestionGet(id) = {}
          THEN /\ resp' = resource_not_found
               /\ session' = <<>>
               /\ UNCHANGED questions
          ELSE IF fault = "call"
          THEN /\ session' = Transaction("delete", "call")
               /\ resp' = unprocessable_entity
               /\ UNCHANGED questions
          ELSE IF fault = "commit"
          THEN /\ session' = Transaction("delete", "commit")
               /\ resp' = unprocessable_entity
               /\ UNCHANGED questions
          ELSE /\ questions' = SessionDelete(questions, QuestionGet(id))
               /\ session' = Transaction("delete", "none")
               /\ resp' = Json(202, EmptyBody)

\* ------------------------------------------------------------------------
\* POST /questions
\* ------------------------------------------------------------------------
\* {'type': 'string', 'minLength': 1}; a property constrains present keys only.
NonEmptyString(v) == Present(v) => (v.t = "string" /\ Len(v.s) >= 1)

\* {'types': [...], 'pattern': '^\d+$'}: 'types' is no schema keyword, and a
\* pattern constrains strings only.
DigitPattern(v) == (v.t = "string") => MatchesDigits(v.s)

\* First alternative of create_questions_schema.
CreateShape(body) ==
    /\ NonEmptyString(body.question)
    /\ NonEmptyString(body.answer)
    /\ DigitPattern(body.difficulty)
    /\ DigitPattern(body.category)
    /\ Present(body.question) /\ Present(body.answer)
    /\ Present(body.difficulty) /\ Present(body.category)

\* Second alternative of create_questions_schema.
SearchShape(body) ==
    /\ Present(body.searchTerm) => body.searchTerm.t = "string"
    /\ Present(body.searchTerm)

\* 'oneOf': exactly one alternative validates.
create_questions_schema(body) == CreateShape(body) # SearchShape(body)

\* Question.question.ilike(f'%{search_term}%')
SearchResult(term) ==
    {q \in questions : ilike(q.question, <<"%">> \o Format(term) \o <<"%">>)}

\* Category.query.get(value), as a set of at most one category id.
CategoryGet(v) ==
    CASE v.t = "number" -> {c \in categories : c = v.n}
      [] v.t = "string" /\ MatchesDigits(v.s) ->
            {c \in categories : c = ParseInt(v.s)}
      [] OTHER -> {}

\* The column value of a JSON value, as a tuple of at most one value: a
\* missing key and null give None, which a NOT NULL column refuses.
TextColumn(v) == IF v.t = "string" THEN <<v.s>> ELSE <<>>

IntegerColumn(v) ==
    CASE v.t = "number" -> <<v.n>>
      [] v.t = "string" /\ MatchesDigits(v.s) -> <<ParseInt(v.s)>>
      [] OTHER -> <<>>

\* nullable=False on question, answer and difficulty.
RowAccepted(body) ==
    /\ TextColumn(body.question) # <<>>
    /\ TextColumn(body.answer) # <<>>
    /\ IntegerColumn(body.difficulty) # <<>>

\* Mutant: the row is filed under the first category of the table.
NewRow_first(body, category) ==
    [id |-> nextId,
     question |-> TextColumn(body.question)[1],
     answer |-> TextColumn(body.answer)[1],
     difficulty |-> IntegerColumn(body.difficulty)[1],
     category_id |-> CHOOSE c \in categories : \A d \in categories : c <= d]

NewRow(body, category) ==
    [id |-> nextId,
     question |-> TextColumn(body.question)[1],
     answer |-> TextColumn(body.answer)[1],
     difficulty |-> IntegerColumn(body.difficulty)[1],
     category_id |-> category]

\* The request passes validation, is no search and names an existing category.
ReachesInsert(body) ==
    /\ create_questions_schema(body)
    /\ ~Truthy(body.searchTerm)
    /\ CategoryGet(body.category) # {}

create_questions(body, fault) ==
    LET request == [op |-> "create_questions", body |-> body, fault |-> fault]
        found == SearchResult(body.searchTerm)
    IN /\ req' = request
       /\ before' = Snapshot
       /\ UNCHANGED categories
       /\ IF ~create_questions_schema(body)
          THEN /\ resp' = bad_request
               /\ session' = <<>>
               /\ UNCHANGED <<questions, nextId>>
          ELSE IF Truthy(body.searchTerm)
          THEN /\ resp' = IF found = {} THEN resource_not_found
                          ELSE Json(200,
                                [questions |-> {format(q) : q \in found},
                                 totalQuestions |-> Cardinality(found),
                                 currentCategory |-> <<>>])
               /\ session' = <<>>
               /\ UNCHANGED <<questions, nextId>>
          ELSE IF CategoryGet(body.category) = {}
          THEN /\ resp' = resource_not_found
               /\ session' = <<>>
               /\ UNCHANGED <<questions, nextId>>
          ELSE IF fault = "call"
          THEN /\ session' = Transaction("add", "call")
               /\ resp' = unprocessable_entity
               /\ UNCHANGED <<questions, nextId>>
          ELSE IF fault = "commit" \/ ~RowAccepted(body)
          THEN /\ session' = Transaction("add", "commit")
               /\ resp' = unprocessable_entity
               /\ UNCHANGED <<questions, nextId>>
          ELSE /\ questions' = SessionAdd(questions,
                    NewRow(body, CHOOSE c \in CategoryGet(body.category) : TRUE))
               /\ nextId' = nextId + 1
               /\ session' = Transaction("add", "none")
               /\ resp' = Json(201, EmptyBody)

\* ------------------------------------------------------------------------
\* POST /quizzes
\* ------------------------------------------------------------------------
\* 'uniqueItems': True
UniqueItems(x) == \A i, j \in 1..Len(x) : x[i] = x[j] => i = j

get_quizzes_schema(body) ==
    /\ body.previous_questions.present
    /\ UniqueItems(body.previous_questions.items)
    /\ body.quiz_category.present
    /\ Present(body.quiz_category.type) => body.quiz_category.type.t = "string"
    /\ DigitPattern(body.quiz_category.id)
    /\ Present(body.quiz_category.type) /\ Present(body.quiz_category.id)

\* int(value), as a tuple of at most one integer: int(None) raises.
IntOf(v) ==
    CASE v.t = "number" -> <<v.n>>
      [] v.t = "string" /\ MatchesDigits(v.s) -> <<ParseInt(v.s)>>
      [] OTHER -> <<>>

Range(x) == {x[i] : i \in 1..Len(x)}

\* Mutant: the ids asked before are not excluded.
filtered_questions_asked(category_id, previous) ==
    IF category_id > 0
    THEN {q \in questions : q.category_id = category_id}
    ELSE questions

\* Mutant: within a category only the question asked last is excluded.
filtered_questions_last(category_id, previous) ==
    IF category_id > 0
    THEN {q \in questions : /\ q.category_id = category_id
                            /\ \A p \in previous :
                                  (\A r \in previous : r <= p) => q.id # p}
    ELSE {q \in questions : q.id \notin previous}

\* filtered_questions for a category id and the ids asked before.
filtered_questions(category_id, previous) ==
    IF category_id > 0
    THEN {q \in questions : q.category_id = category_id /\ q.id \notin previous}
    ELSE {q \in questions : q.id \notin previous}

get_quizzes(body) ==
    LET request == [op |-> "get_quizzes", body |-> body]
        id == IntOf(body.quiz_category.id)
        previous == Range(body.previous_questions.items)
    IN IF ~get_quizzes_schema(body)
       THEN Reads(request, bad_request)
       ELSE IF id = <<>>
       THEN Reads(request, internal_server_error)
       ELSE IF id[1] > 0 /\ id[1] \notin categories
       THEN Reads(request, resource_not_found)
       ELSE IF filtered_questions(id[1], previous) = {}
       THEN Reads(request, Json(201, [question |-> <<>>]))
       ELSE \E q \in filtered_questions(id[1], previous) :
                Reads(request, Json(201, [question |-> <<format(q)>>]))

\* ------------------------------------------------------------------------
\* GET /
\* ------------------------------------------------------------------------
index == Reads([op |-> "index"], Json(200, EmptyBody))

\* ------------------------------------------------------------------------
\* Routing
\* ------------------------------------------------------------------------
\* A verb the route does not list: PUT /questions.
put_questions == Reads([op |-> "put_questions"], method_not_allowed)

\* A path no route matches: GET /play.
unknown_route == Reads([op |-> "unknown_route"], resource_not_found)

\* ------------------------------------------------------------------------
\* Requests
\* ------------------------------------------------------------------------
Faults == {"none", "call", "commit"}

PageArgs == {<<>>} \cup {<<p>> : p \in 0..MaxPage}

Texts(chars, n) == UNION {[1..k -> chars] : k \in 0..n}

SearchTerms ==
    {Absent, Num(7)} \cup {Str(x) : x \in Texts({"A", "_"}, MaxTermLen)}

CreateKeys == {"question", "answer", "difficulty", "category"}

\* A well-formed create request, and the values each key is varied over.
SampleBody ==
    [searchTerm |-> Absent, question |-> Str(<<"a", "B">>),
     answer |-> Str(<<"x">>), difficulty |-> Num(1), category |-> Num(1)]

BodyValues ==
    [searchTerm : SearchTerms,
     question : {Absent, Str(<<>>), Str(<<"a", "B">>)},
     answer : {Absent, Str(<<"x">>)},
     difficulty : {Absent, Null, Num(1), Str(<<"1">>), Str(<<"x">>)},
     category : {Absent, Null, Num(1), Num(MaxCat + 1), Str(<<"2">>)}]

\* Bodies with any searchTerm whose create keys are all missing, or differ
\* from the well-formed request in at most MaxDeviations keys.
QuestionBodies ==
    {b \in BodyValues :
        \/ \A k \in CreateKeys : b[k] = Absent
        \/ Cardinality({k \in CreateKeys : b[k] # SampleBody[k]}) <= MaxDeviations}

\* A well-formed quiz request, and the values its two keys are varied over.
SamplePrevious == [present |-> TRUE, items |-> <<>>]

SampleCategory == [present |-> TRUE, type |-> Str(<<"t">>), id |-> Num(1)]

PreviousQuestions ==
    {[present |-> FALSE, items |-> <<>>]} \cup
    {[present |-> TRUE, items |-> x] : x \in Texts(1..MaxId, MaxPrevLen)}

QuizCategories ==
    {[present |-> FALSE, type |-> Absent, id |-> Absent],
     [present |-> TRUE, type |-> Absent, id |-> Num(1)]} \cup
    {[present |-> TRUE, type |-> Str(<<"t">>), id |-> v] :
        v \in {Absent, Null, Str(<<"1">>), Str(<<"x">>)}
              \cup {Num(k) : k \in (0 - 1)..(MaxCat + 1)}}

\* items in ascending order: the handler reads them as a set.
Ascending(x) == \A i, j \in 1..Len(x) : i < j => x[i] <= x[j]

\* Every well-formed pair, and every malformed value beside the sample.
QuizBodies ==
    {b \in [previous_questions : PreviousQuestions, quiz_category : QuizCategories] :
        /\ Ascending(b.previous_questions.items)
        /\ \/ b.previous_questions = SamplePrevious
           \/ b.quiz_category = SampleCategory
           \/ /\ b.previous_questions.present
              /\ UniqueItems(b.previous_questions.items)
              /\ b.quiz_category.present
              /\ b.quiz_category.type = SampleCategory.type
              /\ IntOf(b.quiz_category.id) # <<>>}

\* ------------------------------------------------------------------------
\* Seed data (populate_db of the test suite)
\* ------------------------------------------------------------------------
SeedText(i) ==
    CASE i % 3 = 1 -> <<"a">> [] i % 3 = 2 -> <<"B", "a">> [] OTHER -> <<"b">>

SeedCategory(i, cats) ==
    IF i % 2 = 1 THEN CHOOSE c \in cats : \A d \in cats : c <= d
    ELSE CHOOSE c \in cats : \A d \in cats : c >= d

SeedRow(i, cats) ==
    [id |-> i, question |-> SeedText(i), answer |-> <<"x">>,
     difficulty |-> 1 + (i % 2), category_id |-> SeedCategory(i, cats)]

Seeded(cats, n) ==
    /\ categories = cats
    /\ questions = {SeedRow(i, cats) : i \in 1..n}
    /\ nextId = n + 1
    /\ req = [op |-> "none"]
    /\ resp = Json(200, EmptyBody)
    /\ before = [questions |-> questions, categories |-> categories]
    /\ session = <<>>

\* No quiz is being played.
NoQuiz == [scope |-> 0, answers |-> <<>>, changed |-> FALSE]

Init ==
    \E cats \in SUBSET CatIds : \E n \in 0..MaxSeed :
        /\ cats = {} => n = 0
        /\ Seeded(cats, n)
        /\ quiz = NoQuiz

Next ==
    \/ index /\ UNCHANGED quiz
    \/ put_questions /\ UNCHANGED quiz
    \/ unknown_route /\ UNCHANGED quiz
    \/ \E arg \in PageArgs : get_questions(arg) /\ UNCHANGED quiz
    \/ \E id \in 0..(MaxCat + 1) : get_questions_of_category(id) /\ UNCHANGED quiz
    \/ get_categories /\ UNCHANGED quiz
    \/ \E id \in 0..(MaxId + 1) : \E fault \in Faults :
          /\ QuestionGet(id) = {} => fault = "none"
          /\ delete_questions(id, fault)
          /\ UNCHANGED quiz
    \/ \E body \in QuestionBodies : \E fault \in Faults :
          /\ IF ReachesInsert(body) THEN nextId <= MaxId ELSE fault = "none"
          /\ create_questions(body, fault)
          /\ UNCHANGED quiz
    \/ \E body \in QuizBodies : get_quizzes(body) /\ UNCHANGED quiz

Spec == Init /\ [][Next]_vars

\* A question table of more than one page, with requests enough to move
\* the page boundaries.
InitPages ==
    /\ \/ Seeded({}, 0)
       \/ \E n \in {0} \cup ((MaxPageSeed - 2)..MaxPageSeed) : Seeded(CatIds, n)
    /\ quiz = NoQuiz

NextPages ==
    \/ \E arg \in PageArgs : get_questions(arg) /\ UNCHANGED quiz
    \/ \E id \in 0..(MaxCat + 1) : get_questions_of_category(id) /\ UNCHANGED quiz
    \/ get_categories /\ UNCHANGED quiz
    \/ \E id \in 1..MaxId : delete_questions(id, "none") /\ UNCHANGED quiz
    \/ /\ categories # {}
       /\ nextId <= MaxPageSeed + 1
       /\ create_questions(SampleBody, "none")
       /\ UNCHANGED quiz

SpecPages == InitPages /\ [][NextPages]_vars

\* ------------------------------------------------------------------------
\* A quiz client
\* ------------------------------------------------------------------------
\* The ids the client was given, in the order it got them; 0 stands for an
\* answer without a question.
Asked(answers) == SelectSeq(answers, LAMBDA a : a # 0)

\* The body of the client's next POST /quizzes.
QuizBody ==
    [previous_questions |-> [present |-> TRUE, items |-> Asked(quiz.answers)],
     quiz_category |->
        [present |-> TRUE, type |-> Str(<<"t">>), id |-> Num(quiz.scope)]]

Returned(response) ==
    IF response.status = 201 /\ response.body.question # <<>>
    THEN response.body.question[1].id
    ELSE 0

\* The client asks for its next question and notes the answer.
NextQuestion ==
    /\ Len(quiz.answers) < MaxCalls
    /\ get_quizzes(QuizBody)
    /\ quiz' = [quiz EXCEPT !.answers = Append(@, Returned(resp'))]

\* Create requests of other clients, one per category.
QuizCreates ==
    {SampleBody} \cup {[SampleBody EXCEPT !.category = Num(c)] : c \in CatIds}

StoreChanged == quiz' = [quiz EXCEPT !.changed = @ \/ questions' # questions]

InitQuiz ==
    \E n \in 0..MaxQuizSeed : \E scope \in {0} \cup CatIds :
        /\ Seeded(CatIds, n)
        /\ quiz = [scope |-> scope, answers |-> <<>>, changed |-> FALSE]

NextQuiz ==
    \/ NextQuestion
    \/ \E id \in 1..MaxId :
          /\ QuestionGet(id) # {}
          /\ delete_questions(id, "none")
          /\ StoreChanged
    \/ \E body \in QuizCreates :
          /\ nextId <= MaxId
          /\ create_questions(body, "none")
          /\ StoreChanged

SpecQuiz == InitQuiz /\ [][NextQuiz]_vars

\* ========================================================================
\* Properties
\* ========================================================================
StoreUnchanged ==
    /\ questions = before.questions
    /\ categories = before.categories

NotFound ==
    /\ resp.status = 404
    /\ resp.json
    /\ resp.body = [error |-> 404, message |-> "resource not found"]

IsEmptyBody == resp.json /\ DOMAIN resp.body = {}

\* ------------------------------------------------------------------------
\* POST /quizzes
\* ------------------------------------------------------------------------
\* A request the validator lets through whose category id is an integer >= 0.
WellFormedQuiz(body) ==
    /\ body.previous_questions.present
    /\ \A i, j \in 1..Len(body.previous_questions.items) :
          i # j => body.previous_questions.items[i] # body.previous_questions.items[j]
    /\ body.quiz_category.present
    /\ body.quiz_category.type.t = "string"
    /\ \/ body.quiz_category.id.t = "number"
       \/ body.quiz_category.id.t = "string" /\ MatchesDigits(body.quiz_category.id.s)
    /\ IntOf(body.quiz_category.id)[1] >= 0

QuizId == IntOf(req.body.quiz_category.id)[1]

QuizPrevious == Range(req.body.previous_questions.items)

\* The questions of category id (all questions when id = 0) not asked before.
CandidatePool ==
    {q \in questions : (QuizId > 0 => q.category_id = QuizId) /\ q.id \notin QuizPrevious}

QuizDrawsFromPool ==
    /\ resp.status = 201
    /\ resp.json
    /\ DOMAIN resp.body = {"question"}
    /\ resp.body.question = <<>> <=> CandidatePool = {}
    /\ resp.body.question # <<>> =>
          \E q \in CandidatePool : resp.body.question = <<format(q)>>
    /\ StoreUnchanged

\* C1 as stated: every well-formed POST /quizzes is answered 201 with a
\* question of the candidate pool, and with null exactly when the pool is empty.
C1_AsStated ==
    (req.op = "get_quizzes" /\ WellFormedQuiz(req.body)) => QuizDrawsFromPool

\* C1 as amended: a well-formed POST /quizzes whose category id is 0 or
\* the id of an existing category is answered 201 with a question of the
\* candidate pool, and with null exactly when the pool is empty; one whose
\* category id is above 0 and names no category is answered 404.
C1_QuizPool ==
    (req.op = "get_quizzes" /\ WellFormedQuiz(req.body)) =>
        IF QuizId > 0 /\ QuizId \notin categories
        THEN NotFound /\ StoreUnchanged
        ELSE QuizDrawsFromPool

\* A category-scoped quiz with a question asked before, a question of another
\* category in the table, and a question left to return.
C1_Witness ==
    /\ req.op = "get_quizzes"
    /\ WellFormedQuiz(req.body)
    /\ QuizId \in categories
    /\ \E q \in questions : q.category_id = QuizId /\ q.id \in QuizPrevious
    /\ \E q \in questions : q.category_id # QuizId /\ q.id \notin QuizPrevious
    /\ resp.status = 201
    /\ resp.body.question # <<>>

\* ------------------------------------------------------------------------
\* POST /questions, create mode
\* ------------------------------------------------------------------------
IsInteger(v) == v.t = "number" \/ (v.t = "string" /\ MatchesDigits(v.s))

IntegerOf(v) == IF v.t = "number" THEN v.n ELSE ParseInt(v.s)

\* No searchTerm; question and answer are non-empty strings, difficulty an
\* integer, category the id of an existing category; the store accepts.
AcceptedCreate ==
    /\ req.op = "create_questions"
    /\ req.fault = "none"
    /\ req.body.searchTerm = Absent
    /\ req.body.question.t = "string" /\ req.body.question.s # <<>>
    /\ req.body.answer.t = "string" /\ req.body.answer.s # <<>>
    /\ IsInteger(req.body.difficulty)
    /\ IsInteger(req.body.category)
    /\ IntegerOf(req.body.category) \in before.categories

\* C2: an accepted create request is answered 201 with an empty body; the
\* question table is the former table and exactly one new row, which holds
\* the submitted question, answer, difficulty and category id; the category
\* table is as before.
C2_CreateAddsOneRow ==
    AcceptedCreate =>
        /\ resp.status = 201
        /\ IsEmptyBody
        /\ before.questions \subseteq questions
        /\ Cardinality(questions) = Cardinality(before.questions) + 1
        /\ \A q \in questions \ before.questions :
              /\ q.question = req.body.question.s
              /\ q.answer = req.body.answer.s
              /\ q.difficulty = IntegerOf(req.body.difficulty)
              /\ q.category_id = IntegerOf(req.body.category)
              /\ \A r \in before.questions : r.id # q.id
        /\ categories = before.categories

\* A create into the second category of a table that already holds questions.
C2_Witness ==
    /\ AcceptedCreate
    /\ before.questions # {}
    /\ IntegerOf(req.body.category) > 1
    /\ resp.status = 201

\* ------------------------------------------------------------------------
\* DELETE /questions/<id>
\* ------------------------------------------------------------------------
\* Every question a response shows is a row of the question table.
ShownQuestions ==
    CASE ~resp.json \/ resp.status >= 400 -> {}
      [] req.op = "get_questions" ->
            {resp.body.questions[i] : i \in 1..Len(resp.body.questions)}
      [] req.op = "get_questions_of_category" -> resp.body.questions
      [] req.op = "create_questions" /\ resp.status = 200 -> resp.body.questions
      [] req.op = "get_quizzes" -> Range(resp.body.question)
      [] OTHER -> {}

\* C3: DELETE of an id in the table, accepted by the store, is answered 202
\* with an empty body; afterwards the table is the former table without the
\* row of that id and the category table is as before; and no response ever
\* shows a question that is not in the table.
C3_DeleteRemovesOneRow ==
    /\ (/\ req.op = "delete_questions"
        /\ req.fault = "none"
        /\ \E q \in before.questions : q.id = req.id) =>
            /\ resp.status = 202
            /\ IsEmptyBody
            /\ questions = {q \in before.questions : q.id # req.id}
            /\ categories = before.categories
    /\ \A shown \in ShownQuestions : \E q \in questions : shown = format(q)

\* A delete that leaves another question of the same category behind.
C3_Witness ==
    /\ req.op = "delete_questions"
    /\ req.fault = "none"
    /\ \E q \in before.questions :
          /\ q.id = req.id
          /\ \E r \in questions : r.category_id = q.category_id
    /\ resp.status = 202

\* C4: DELETE of an id that is not in the table is answered 404 'resource
\* not found' and leaves both tables as they were.
C4_DeleteMissing ==
    (/\ req.op = "delete_questions"
     /\ \A q \in before.questions : q.id # req.id) =>
        NotFound /\ StoreUnchanged

\* A delete of a missing id from a table that holds questions.
C4_Witness ==
    /\ req.op = "delete_questions"
    /\ before.questions # {}
    /\ \A q \in before.questions : q.id # req.id
    /\ \E q \in before.questions : q.id < req.id
    /\ resp.status = 404

\* ------------------------------------------------------------------------
\* POST /questions, search mode
\* ------------------------------------------------------------------------
\* term occurs in x as a substring, letters compared without regard to case.
Contains(x, term) ==
    \E i \in 1..(Len(x) - Len(term) + 1) :
        \A j \in 1..Len(term) : Lower(x[i + j - 1]) = Lower(term[j])

\* A body that carries a non-empty string searchTerm and nothing else.
SearchOnly ==
    /\ req.op = "create_questions"
    /\ req.body.searchTerm.t = "string"
    /\ req.body.searchTerm.s # <<>>
    /\ \A k \in CreateKeys : req.body[k] = Absent

Matching == {q \in questions : Contains(q.question, req.body.searchTerm.s)}

\* C5 as stated: a search is answered 404 when no question text contains the
\* term as a case-insensitive substring, and otherwise 200 with exactly the
\* questions whose text contains it, their number and a null currentCategory;
\* the store is unchanged.
C5_AsStated ==
    SearchOnly =>
        /\ IF Matching = {} THEN NotFound
           ELSE /\ resp.status = 200
                /\ resp.body.questions = {format(q) : q \in Matching}
                /\ resp.body.totalQuestions = Cardinality(Matching)
                /\ resp.body.currentCategory = <<>>
        /\ StoreUnchanged

\* ------------------------------------------------------------------------
\* GET /questions
\* ------------------------------------------------------------------------
Total == Cardinality(questions)

RequestedPage == PageOf(req.page)

Min(a, b) == IF a < b THEN a ELSE b

\* C6: for a page p >= 1 that starts within the table, GET /questions
\* answers 200 with the p-th slice of size 10 of the questions in ascending
\* id order (10 items, or the remainder on the last page), and totalQuestions
\* is the number of rows of the table.
C6_PageSlice ==
    (/\ req.op = "get_questions"
     /\ RequestedPage >= 1
     /\ (RequestedPage - 1) * 10 < Total) =>
        /\ resp.status = 200
        /\ Len(resp.body.questions) = Min(10, Total - (RequestedPage - 1) * 10)
        /\ \A i \in 1..Len(resp.body.questions) :
              \E q \in questions :
                 /\ resp.body.questions[i] = format(q)
                 /\ Cardinality({r \in questions : r.id < q.id})
                       = (RequestedPage - 1) * 10 + i - 1
        /\ resp.body.totalQuestions = Total
        /\ StoreUnchanged

\* The second, partly filled page of a table whose ids have a gap.
C6_Witness ==
    /\ req.op = "get_questions"
    /\ RequestedPage = 2
    /\ resp.status = 200
    /\ Len(resp.body.questions) \in 1..9
    /\ \E q \in questions : q.id > Total

\* ------------------------------------------------------------------------
\* The read endpoints
\* ------------------------------------------------------------------------
ReadAnswer(missing) ==
    /\ IF missing THEN NotFound ELSE resp.status = 200
    /\ StoreUnchanged

CategoryRead ==
    /\ req.op = "get_categories" => ReadAnswer(categories = {})
    /\ req.op = "get_questions_of_category" =>
          ReadAnswer(\/ req.id \notin categories
                     \/ \A q \in questions : q.category_id # req.id)

\* C7 as stated: GET /questions fails with 404 exactly when no category
\* exists or the page is out of range, an empty table having no page in range.
C7_AsStated ==
    /\ CategoryRead
    /\ req.op = "get_questions" =>
          ReadAnswer(\/ categories = {}
                     \/ RequestedPage < 1
                     \/ (RequestedPage - 1) * 10 >= Total)

\* C7 as amended: the read endpoints answer 404 'resource not found' exactly
\* when: GET /questions and no category exists, or the page is below 1, or
\* the page is above 1 and starts beyond the last question; GET /categories
\* and the category table is empty; GET /categories/{id}/questions and the
\* category does not exist or has no question.  Otherwise they answer 200
\* (page 1 of an empty question table is an empty list), and the store is
\* unchanged in every case.
C7_ReadNotFound ==
    /\ CategoryRead
    /\ req.op = "get_questions" =>
          ReadAnswer(\/ categories = {}
                     \/ RequestedPage < 1
                     \/ (RequestedPage > 1 /\ (RequestedPage - 1) * 10 >= Total))

\* The first page of an empty question table, with categories present.
C7_Witness ==
    /\ req.op = "get_questions"
    /\ RequestedPage = 1
    /\ questions = {}
    /\ categories # {}
    /\ resp.status = 200
    /\ resp.body.questions = <<>>
    /\ resp.body.totalQuestions = 0

\* ------------------------------------------------------------------------
\* POST /questions and POST /quizzes: validation
\* ------------------------------------------------------------------------
\* C8 as stated: a body with a non-empty string searchTerm is handled as a
\* search whatever create keys it carries: it is answered 200 or 404, never
\* 400, and no row is inserted.
C8_AsStated ==
    (/\ req.op = "create_questions"
     /\ req.body.searchTerm.t = "string"
     /\ req.body.searchTerm.s # <<>>) =>
        /\ resp.status \in {200, 404}
        /\ session = <<>>
        /\ StoreUnchanged

\* C9 as stated: a POST /questions body with no truthy searchTerm that lacks
\* a create key, and a POST /quizzes body that lacks previous_questions,
\* quiz_category or quiz_category.id, is answered 400 with the store untouched.
C9_AsStated ==
    /\ (/\ req.op = "create_questions"
        /\ ~Truthy(req.body.searchTerm)
        /\ \E k \in CreateKeys : ~Present(req.body[k])) =>
            /\ resp.status = 400
            /\ session = <<>>
            /\ StoreUnchanged
    /\ (/\ req.op = "get_quizzes"
        /\ \/ ~req.body.previous_questions.present
           \/ ~req.body.quiz_category.present
           \/ ~Present(req.body.quiz_category.id)) =>
            /\ resp.status = 400
            /\ StoreUnchanged

Unprocessable ==
    /\ resp.status = 422
    /\ resp.json
    /\ resp.body = [error |-> 422, message |-> "unprocessable entity"]

\* C10 as stated: a POST /questions body with neither a create key nor a
\* searchTerm, and a POST /quizzes body whose quiz_category has no id, is
\* answered 422 'unprocessable entity'.
C10_AsStated ==
    /\ (/\ req.op = "create_questions"
        /\ ~Present(req.body.searchTerm)
        /\ \A k \in CreateKeys : ~Present(req.body[k])) => Unprocessable
    /\ (/\ req.op = "get_quizzes"
        /\ req.body.previous_questions.present
        /\ req.body.quiz_category.present
        /\ ~Present(req.body.quiz_category.id)) => Unprocessable

\* ------------------------------------------------------------------------
\* Store failures
\* ------------------------------------------------------------------------
\* The request got as far as its try block: a delete of an id in the table,
\* or a create that passed validation, is no search and names a category.
ReachedTransaction ==
    \/ /\ req.op = "delete_questions"
       /\ \E q \in before.questions : q.id = req.id
    \/ /\ req.op = "create_questions"
       /\ ReachesInsert(req.body)

\* The store raised: a fault in the call or the commit, or a row of the
\* create that a NOT NULL column refuses.
StoreRaised ==
    /\ ReachedTransaction
    /\ \/ req.fault # "none"
       \/ req.op = "create_questions" /\ ~RowAccepted(req.body)

Count(x, call) == Cardinality({i \in 1..Len(x) : x[i] = call})

\* C11: when the store raises during the add, delete or commit of a create
\* or delete request, the handler rolls back, answers 422 'unprocessable
\* entity' and both tables are as before the request; and every mutating
\* request that reaches its transaction closes the session exactly once, as
\* its last call, right after the commit or the rollback.
C11_RollbackAndClose ==
    /\ StoreRaised =>
          /\ Count(session, "rollback") = 1
          /\ Unprocessable
          /\ StoreUnchanged
    /\ ReachedTransaction =>
          /\ Count(session, "close") = 1
          /\ Len(session) >= 2
          /\ session[Len(session)] = "close"
          /\ session[Len(session) - 1] \in {"commit", "rollback"}
          /\ StoreRaised <=> session[Len(session) - 1] = "rollback"

\* A commit that raises while a delete is under way.
C11_Witness ==
    /\ req.op = "delete_questions"
    /\ req.fault = "commit"
    /\ StoreRaised
    /\ resp.status = 422
    /\ session = <<"delete", "commit", "rollback", "close">>
    /\ questions # {}

\* ------------------------------------------------------------------------
\* Error responses
\* ------------------------------------------------------------------------
FixedMessage(status) ==
    CASE status = 400 -> {"bad request", ValidatorMessage}
      [] status = 404 -> {"resource not found"}
      [] status = 405 -> {"method not allowed"}
      [] status = 422 -> {"unprocessable entity"}
      [] status = 500 -> {"internal server error"}
      [] OTHER -> {}

\* C12 as stated: every error response is the JSON body {error: status,
\* message: text} with the text fixed for its status: 404, 405, 422, 400
\* (or the validator's message) and 500 'internal server error'.
C12_AsStated ==
    resp.status >= 400 =>
        /\ resp.json
        /\ DOMAIN resp.body = {"error", "message"}
        /\ resp.body.error = resp.status
        /\ resp.body.message \in FixedMessage(resp.status)

\* ------------------------------------------------------------------------
\* A quiz session
\* ------------------------------------------------------------------------
\* The questions of the category the client plays (all when it is 0).
ScopePool == {q \in questions : quiz.scope > 0 => q.category_id = quiz.scope}

\* C13: a client that starts with previous_questions empty and adds every
\* returned id to it is never given a question twice, whatever create and
\* delete requests come in between; and while the store has not changed,
\* call i returns a question of the chosen scope for i up to the size of
\* the scope and null after that, so that each question of the scope is
\* returned exactly once and the call numbered (size + 1) returns null.
C13_QuizSession ==
    /\ \A i, j \in 1..Len(quiz.answers) :
          (quiz.answers[i] # 0 /\ quiz.answers[i] = quiz.answers[j]) => i = j
    /\ ~quiz.changed =>
          \A i \in 1..Len(quiz.answers) :
             IF i <= Cardinality(ScopePool)
             THEN \E q \in ScopePool : quiz.answers[i] = q.id
             ELSE quiz.answers[i] = 0

\* A quiz over a category of two questions, played to its end on a store
\* that holds a question of another category and did not change.
C13_Witness ==
    /\ ~quiz.changed
    /\ quiz.scope > 0
    /\ Cardinality(ScopePool) = 2
    /\ questions # ScopePool
    /\ Len(quiz.answers) = 3
    /\ quiz.answers[1] # 0 /\ quiz.answers[2] # 0
    /\ quiz.answers[3] = 0
    /\ req.op = "get_quizzes"

====
